---- MODULE Spec2Model ----
(***************************************************************************)
(* Streaming chat session protocol of the Deep Agent Builder front end:    *)
(* the SSE frame decoder and event mapper of the API client                *)
(* (api/agent.ts: sendMessage, sendApproval, _parseSSE) and the            *)
(* conversation state machine of the chat component                        *)
(* (ChatSection.tsx: handleSend, handleApproval).                          *)
(*                                                                         *)
(* Text is modelled by TLA+ strings, character by character (Len, SubSeq   *)
(* and \o act on strings as on sequences).  The warning emoji of the       *)
(* user-visible texts is written "(!)", the other emoji are left out.      *)
(***************************************************************************)
EXTENDS Integers, Sequences, FiniteSets, TLC

\* ------------------------------------------------------------------ bounds
\* frames of one generated event stream
MaxFrames == 2
\* calls of handleSend / handleApproval that reach the client, in one chat
MaxOps == 2
\* events the response streams of one chat deliver
MaxEvents == 2
\* length of the message list up to which a send without a session is tried
MaxLocalMessages == 3
\* tool events the stream of one turn delivers
MaxToolEvents == 3
\* build actions in one run of the App
MaxBuilds == 2
\* payloads handed to the event mapper in one run
MaxMapped == 2

\* ------------------------------------------------------- string primitives
\* String.prototype.indexOf(pat, from), 1-based; 0 when JS returns -1
IndexOfFrom(s, pat, from) ==
  LET hits == {i \in from..(Len(s) - Len(pat) + 1) : SubSeq(s, i, i + Len(pat) - 1) = pat}
  IN IF hits = {} THEN 0 ELSE CHOOSE i \in hits : \A j \in hits : i <= j

IndexOf(s, pat) == IndexOfFrom(s, pat, 1)

\* String.prototype.startsWith
StartsWith(s, p) == Len(s) >= Len(p) /\ SubSeq(s, 1, Len(p)) = p

\* s.substring(n) with a 0-based n
SubstringFrom(s, n) == SubSeq(s, n + 1, Len(s))

\* the characters String.prototype.trim removes (those the model's texts use)
IsSpace(c) == c \in {" ", "\n", "\r", "\t"}

RECURSIVE TrimStart(_)
TrimStart(s) ==
  IF Len(s) > 0 /\ IsSpace(SubSeq(s, 1, 1)) THEN TrimStart(SubSeq(s, 2, Len(s))) ELSE s

RECURSIVE TrimEnd(_)
TrimEnd(s) ==
  IF Len(s) > 0 /\ IsSpace(SubSeq(s, Len(s), Len(s)))
  THEN TrimEnd(SubSeq(s, 1, Len(s) - 1)) ELSE s

Trim(s) == TrimEnd(TrimStart(s))

\* s.replace(/\r\n/g, '\n')
RECURSIVE ReplaceCRLF(_)
ReplaceCRLF(s) ==
  LET i == IndexOf(s, "\r\n") IN
  IF i = 0 THEN s
  ELSE SubSeq(s, 1, i - 1) \o "\n" \o ReplaceCRLF(SubSeq(s, i + 2, Len(s)))

\* s.split('\n')
RECURSIVE SplitLines(_)
SplitLines(s) ==
  LET i == IndexOf(s, "\n") IN
  IF i = 0 THEN <<s>>
  ELSE <<SubSeq(s, 1, i - 1)>> \o SplitLines(SubSeq(s, i + 1, Len(s)))

\* ------------------------------------------------------------ event mapper
\* what a read of an absent property gives
Undefined == "<undefined>"

\* the payload texts of the model and the values JSON.parse gives for them;
\* a text outside the table is not JSON: JSON.parse throws a SyntaxError.
\* str and num hold the text and number properties, requests the array
\* action_requests and decisions the array review_configs[0].allowed_decisions
\* (both empty when absent: an absent and an empty list of decisions differ
\* in no payload of the model)
JsonTable ==
  [p \in {"{}", "{\"content\":\"Hi\"}", "{\"id\":\"t1\",\"name\":\"ls\"}",
          "{\"id\":\"t1\",\"duration\":120}", "{\"message\":\"boom\"}",
          "{\"total_tokens\":3}"} |->
     CASE p = "{}" -> [str |-> <<>>, num |-> <<>>, requests |-> <<>>, decisions |-> <<>>]
       [] p = "{\"content\":\"Hi\"}" ->
            [str |-> <<<<"content", "Hi">>>>, num |-> <<>>,
             requests |-> <<>>, decisions |-> <<>>]
       [] p = "{\"id\":\"t1\",\"name\":\"ls\"}" ->
            [str |-> <<<<"id", "t1">>, <<"name", "ls">>>>, num |-> <<>>,
             requests |-> <<>>, decisions |-> <<>>]
       [] p = "{\"id\":\"t1\",\"duration\":120}" ->
            [str |-> <<<<"id", "t1">>>>, num |-> <<<<"duration", 120>>>>,
             requests |-> <<>>, decisions |-> <<>>]
       [] p = "{\"message\":\"boom\"}" ->
            [str |-> <<<<"message", "boom">>>>, num |-> <<>>,
             requests |-> <<>>, decisions |-> <<>>]
       [] OTHER ->
            [str |-> <<>>, num |-> <<<<"total_tokens", 3>>>>,
             requests |-> <<>>, decisions |-> <<>>]]

IsJson(text) == text \in DOMAIN JsonTable

\* parsed.f for a text-valued property f
GetStr(parsed, f) ==
  IF \E i \in 1..Len(parsed.str) : parsed.str[i][1] = f
  THEN parsed.str[CHOOSE i \in 1..Len(parsed.str) : parsed.str[i][1] = f][2]
  ELSE Undefined

\* parsed.f || 0 for a number-valued property f
GetNumOr0(parsed, f) ==
  IF \E i \in 1..Len(parsed.num) : parsed.num[i][1] = f
  THEN parsed.num[CHOOSE i \in 1..Len(parsed.num) : parsed.num[i][1] = f][2]
  ELSE 0

\* a || b on text values: undefined and '' are falsy
OrElse(a, b) == IF a = Undefined \/ a = "" THEN b ELSE a

NoEvent == [type |-> "none"]

\* the switch of _parseSSE on the type label, applied to a parsed payload
MapParsed(eventType, parsed) ==
  CASE eventType = "token" ->
         [type |-> "token", content |-> OrElse(GetStr(parsed, "content"), "")]
    [] eventType = "tool_start" ->
         [type |-> "tool_start", id |-> GetStr(parsed, "id"),
          name |-> GetStr(parsed, "name"),
          skillId |-> OrElse(GetStr(parsed, "skillId"), "api"),
          icon |-> OrElse(GetStr(parsed, "icon"), "wrench"),
          action |-> OrElse(GetStr(parsed, "action"), GetStr(parsed, "name")),
          input |-> OrElse(GetStr(parsed, "input"), "")]
    [] eventType = "tool_end" ->
         [type |-> "tool_end", id |-> GetStr(parsed, "id"),
          name |-> GetStr(parsed, "name"),
          output |-> OrElse(GetStr(parsed, "output"), ""),
          duration |-> GetNumOr0(parsed, "duration")]
    [] eventType = "error" ->
         [type |-> "error", message |-> OrElse(GetStr(parsed, "message"), "Unknown error")]
    [] eventType = "done" -> [type |-> "done"]
    [] eventType = "interrupt" ->
         [type |-> "interrupt", actionRequests |-> parsed.requests,
          allowedDecisions |->
            IF parsed.decisions = <<>> THEN <<"approve", "reject">> ELSE parsed.decisions]
    [] eventType = "usage" ->
         [type |-> "usage", inputTokens |-> GetNumOr0(parsed, "input_tokens"),
          outputTokens |-> GetNumOr0(parsed, "output_tokens"),
          totalTokens |-> GetNumOr0(parsed, "total_tokens"),
          reasoningTokens |-> GetNumOr0(parsed, "reasoning_tokens")]
    [] OTHER -> NoEvent

\* the last event: and data: lines of a block, trimmed
RECURSIVE ScanLines(_, _, _)
ScanLines(lines, eventType, eventData) ==
  IF lines = <<>> THEN [eventType |-> eventType, eventData |-> eventData]
  ELSE LET line == Head(lines) IN
       IF StartsWith(line, "event:")
       THEN ScanLines(Tail(lines), Trim(SubstringFrom(line, 6)), eventData)
       ELSE IF StartsWith(line, "data:")
       THEN ScanLines(Tail(lines), eventType, Trim(SubstringFrom(line, 5)))
       ELSE ScanLines(Tail(lines), eventType, eventData)

ParseBlock(block) == ScanLines(SplitLines(block), "", "")

\* fault: a payload JSON.parse rejects is reported to the handler as an error
\* event instead of being skipped
BlockEventReportsBadJson(block) ==
  LET f == ParseBlock(block) IN
  IF f.eventType = "" \/ f.eventData = "" THEN NoEvent
  ELSE IF ~IsJson(f.eventData) THEN [type |-> "error", message |-> "Malformed event"]
  ELSE MapParsed(f.eventType, JsonTable[f.eventData])

\* the event of one block, NoEvent when the block is dropped: a missing label
\* or payload, a payload JSON.parse rejects (the catch), an unknown label
BlockEvent(block) ==
  LET f == ParseBlock(block) IN
  IF f.eventType = "" \/ f.eventData = "" THEN NoEvent
  ELSE IF ~IsJson(f.eventData) THEN NoEvent
  ELSE MapParsed(f.eventType, JsonTable[f.eventData])

\* ------------------------------------------------------ conversation state
\* the fixed user-visible texts of ChatSection
NoSessionText ==
  "(!) No agent session found. Please click \"Build New Agent\" and try again."

TimeoutText ==
  "(!) Request timed out after 60 seconds. The backend may be overloaded - try again."

NoResponseText ==
  "(!) No response received from the agent. The backend may need to be restarted."

RejectedText == "Tool execution was rejected by the user."

DoneText == "Done."

GreetingText == "Deep Agent Online"

UnreachableText(errorMsg) == "(!) Could not reach the agent backend.\n\n" \o errorMsg

ErrorSuffix(message) == "\n\n(!) Error: " \o message

\* err.message of the rejection of an aborted fetch or read, and of a failed one
AbortErrorMsg == "The operation was aborted."

NetworkErrorMsg == "Failed to fetch"

\* the skills prop: the skills added to the agent
Skills == <<[id |-> "websearch", name |-> "Web Search", icon |-> "globe"]>>

\* skills.find(s => s.id === skillId)?.icon || icon
SkillIconOr(skillId, icon) ==
  IF \E i \in 1..Len(Skills) : Skills[i].id = skillId
  THEN Skills[CHOOSE i \in 1..Len(Skills) : Skills[i].id = skillId].icon
  ELSE icon

\* a trace item without a duration carries NoDuration
NoDuration == -1

NoInterrupt == [type |-> "none"]

\* rawContent.replace(/<think>[\s\S]*?<\/think>/g, '')
RECURSIVE StripClosedThink(_)
StripClosedThink(s) ==
  LET i == IndexOf(s, "<think>")
      j == IF i = 0 THEN 0 ELSE IndexOfFrom(s, "</think>", i + 7)
  IN IF j = 0 THEN s
     ELSE SubSeq(s, 1, i - 1) \o StripClosedThink(SubSeq(s, j + 8, Len(s)))

\* fault: an open delimiter without its close delimiter is left alone
StripOpenThinkNothing(s) == s

\* .replace(/<think>[\s\S]*$/, '')
StripOpenThink(s) ==
  LET i == IndexOf(s, "<think>") IN IF i = 0 THEN s ELSE SubSeq(s, 1, i - 1)

\* the displayed text of the raw text of the token events
DisplayOf(rawContent) == Trim(StripOpenThink(StripClosedThink(rawContent)))

\* fault: tool_end marks every item of the list
MarkDoneAll(traces, id, duration) ==
  [i \in 1..Len(traces) |-> [traces[i] EXCEPT !.status = "done", !.duration = duration]]

\* tracesRef.current.map(t => t.id === id ? {...t, status: 'done', duration} : t)
MarkDone(traces, id, duration) ==
  [i \in 1..Len(traces) |->
     IF traces[i].id = id
     THEN [traces[i] EXCEPT !.status = "done", !.duration = duration]
     ELSE traces[i]]

\* fault: the items are attached with the status they have
AllDoneAsIs(traces) == traces

\* tracesRef.current.map(t => ({...t, status: 'done'}))
AllDone(traces) == [i \in 1..Len(traces) |-> [traces[i] EXCEPT !.status = "done"]]

\* fault: a token is trimmed before it is appended
AppendTokenTrimmed(rawContent, content) == rawContent \o Trim(content)

\* rawContent += event.content
AppendToken(rawContent, content) == rawContent \o content

\* The event handler handleSend and handleApproval pass to the client (the two
\* switches are the same).  st holds what the handler reads and writes: the
\* locals rawContent and fullContent of the call and the component's
\* streamingContent, tracesRef, activeTraces, sessionTokens, pendingInterrupt
\* and interruptRef.
OnEvent(st, event) ==
  CASE event.type = "token" ->
         LET raw == AppendToken(st.rawContent, event.content) IN
         [st EXCEPT !.rawContent = raw, !.fullContent = DisplayOf(raw),
                    !.streamingContent = DisplayOf(raw)]
    [] event.type = "tool_start" ->
         LET newTrace == [id |-> event.id,
                          name |-> OrElse(event.action, event.name),
                          icon |-> SkillIconOr(event.skillId, event.icon),
                          status |-> "running", duration |-> NoDuration]
         IN [st EXCEPT !.tracesRef = Append(st.tracesRef, newTrace),
                       !.activeTraces = Append(st.tracesRef, newTrace)]
    [] event.type = "tool_end" ->
         [st EXCEPT !.tracesRef = MarkDone(st.tracesRef, event.id, event.duration),
                    !.activeTraces = MarkDone(st.tracesRef, event.id, event.duration)]
    [] event.type = "error" ->
         [st EXCEPT !.fullContent = st.fullContent \o ErrorSuffix(event.message),
                    !.streamingContent = st.fullContent \o ErrorSuffix(event.message)]
    [] event.type = "usage" ->
         [st EXCEPT !.sessionTokens =
            [input |-> st.sessionTokens.input + event.inputTokens,
             output |-> st.sessionTokens.output + event.outputTokens,
             total |-> st.sessionTokens.total + event.totalTokens,
             reasoning |-> st.sessionTokens.reasoning + event.reasoningTokens]]
    [] event.type = "interrupt" ->
         [st EXCEPT !.interruptRef = TRUE, !.pendingInterrupt = event]
    [] OTHER -> st

\* ------------------------------------------------------------------- state
VARIABLES
  \* ChatSection state
  messages,          \* the message list
  input,             \* the text of the input field
  isTyping,          \* "is responding"
  streamingContent,  \* the streamed text on display
  activeTraces,      \* the live trace list (state)
  tracesRef,         \* the live trace list (ref)
  pendingInterrupt,  \* the pending interrupt slot
  interruptRef,      \* ref copy of "an interrupt is pending"
  sessionTokens,     \* the session token counters
  sessionId,         \* the sessionId prop
  \* the handleSend / handleApproval calls that await their client operation
  ops,
  nOps,              \* calls started so far
  nEvents,           \* events delivered so far
  last,              \* history: the call that ended last
  gate,              \* history: the interrupt received and not yet resolved
  usageSeen,         \* history: the sums of the fields of the usage events received
  \* one response body at byte level (_parseSSE)
  frames,            \* the frames the server wrote
  eol,               \* the line ending the server uses
  stream,            \* the bytes of the response body
  pos,               \* bytes read so far
  buffer,            \* the decoder's buffer
  ssePc,             \* "off", "read" (awaiting reader.read), "scan", "done"
  handled,           \* history: the events passed to onEvent
  normText,          \* history: the text appended to buffer so far
  \* App state
  app                \* phase, input mode, model, skills and the session calls made

uiVars == <<messages, input, isTyping, streamingContent, activeTraces, tracesRef,
            pendingInterrupt, interruptRef, sessionTokens, sessionId, ops, nOps,
            nEvents, last, gate, usageSeen>>

sseVars == <<frames, eol, stream, pos, buffer, ssePc, handled, normText>>

vars == <<uiVars, sseVars, app>>

NoSession == "null"

OpIds == 1..MaxOps

\* a slot no call uses.  kind: "send" or "approval"; pc: "fetch" (awaiting
\* fetch) or "read" (awaiting reader.read); rawContent and fullContent are the
\* locals of the call; aborted is controller.signal.aborted, timer the armed
\* timeout, signal whether the client got the signal; calls counts the
\* handler's invocations and abortCalls those up to the abort; gotInterrupt
\* and shape are history
NoOp ==
  [kind |-> "none", pc |-> "unused", rawContent |-> "", fullContent |-> "",
   decision |-> "", aborted |-> FALSE, timer |-> FALSE, signal |-> FALSE,
   calls |-> 0, abortCalls |-> 0, gotInterrupt |-> FALSE, shape |-> "start"]

\* history of a call that ended: status of its response ("ok", "http_error",
\* "no_body", or "pending" when the fetch never resolved), cause of its end
\* ("end" of the body, "abort", "network" failure, "bad_response"), outcome
\* of the client operation ("normal" return or "threw"), agent messages it
\* appended and the content of the one appended last, whether an interrupt
\* was pending when it ended, the fullContent it had before it ended
\* (display), whether it left the chat idle
NoLast ==
  [kind |-> "none", status |-> "pending", cause |-> "", outcome |-> "",
   appended |-> 0, content |-> "", endPending |-> FALSE, calls |-> 0,
   abortCalls |-> 0, aborted |-> FALSE, signal |-> FALSE, shape |-> "start",
   lastEvent |-> "none", bodyRead |-> FALSE, display |-> "", decision |-> "",
   idleAfter |-> FALSE]

UserMessage(content) ==
  [role |-> "user", content |-> content, hasTraces |-> FALSE, traces |-> <<>>]

\* traces: finalTraces.length > 0 ? finalTraces : undefined
AgentMessage(content, finalTraces) ==
  [role |-> "agent", content |-> content, hasTraces |-> Len(finalTraces) > 0,
   traces |-> finalTraces]

AgentCount(msgs) == Cardinality({i \in 1..Len(msgs) : msgs[i].role = "agent"})

InFlight == {o \in OpIds : ops[o].pc \in {"fetch", "read"}}

\* what the handler and the finalization of call o read and write
World(o) ==
  [rawContent |-> ops[o].rawContent, fullContent |-> ops[o].fullContent,
   streamingContent |-> streamingContent, tracesRef |-> tracesRef,
   activeTraces |-> activeTraces, sessionTokens |-> sessionTokens,
   pendingInterrupt |-> pendingInterrupt, interruptRef |-> interruptRef,
   messages |-> messages, isTyping |-> isTyping]

\* fault: the catch reports the timeout whenever the signal was aborted
SendCatchAlwaysTimeout(w, aborted, errorMsg) ==
  [w EXCEPT !.fullContent =
     IF aborted THEN TimeoutText
     ELSE IF w.fullContent # "" THEN w.fullContent ELSE UnreachableText(errorMsg)]

\* the catch of handleSend
SendCatch(w, aborted, errorMsg) ==
  [w EXCEPT !.fullContent =
     IF aborted /\ w.fullContent = "" THEN TimeoutText
     ELSE IF w.fullContent # "" THEN w.fullContent ELSE UnreachableText(errorMsg)]

\* fault: a turn that produced no text is closed without a message
FinalizeSendSkipsEmpty(w) ==
  IF w.interruptRef THEN w
  ELSE IF w.fullContent = ""
  THEN [w EXCEPT !.tracesRef = <<>>, !.activeTraces = <<>>,
                 !.streamingContent = "", !.isTyping = FALSE]
  ELSE [w EXCEPT !.messages = Append(w.messages,
                                     AgentMessage(w.fullContent, AllDone(w.tracesRef))),
                 !.tracesRef = <<>>, !.activeTraces = <<>>,
                 !.streamingContent = "", !.isTyping = FALSE]

\* fault: the finalization leaves the streamed text on display
FinalizeSendKeepsBuffer(w) ==
  IF w.interruptRef THEN w
  ELSE LET content == IF w.fullContent = "" THEN NoResponseText ELSE w.fullContent IN
       [w EXCEPT !.fullContent = content,
                 !.messages = Append(w.messages, AgentMessage(content, AllDone(w.tracesRef))),
                 !.tracesRef = <<>>, !.activeTraces = <<>>, !.isTyping = FALSE]

\* fault: the finalization writes its message over the last one of the list
FinalizeSendReplacesLast(w) ==
  IF w.interruptRef THEN w
  ELSE LET content == IF w.fullContent = "" THEN NoResponseText ELSE w.fullContent IN
       [w EXCEPT !.fullContent = content,
                 !.messages = [w.messages EXCEPT ![Len(w.messages)] =
                                 AgentMessage(content, AllDone(w.tracesRef))],
                 !.tracesRef = <<>>, !.activeTraces = <<>>,
                 !.streamingContent = "", !.isTyping = FALSE]

\* handleSend after the try statement
FinalizeSend(w) ==
  IF w.interruptRef THEN w
  ELSE LET content == IF w.fullContent = "" THEN NoResponseText ELSE w.fullContent IN
       [w EXCEPT !.fullContent = content,
                 !.messages = Append(w.messages, AgentMessage(content, AllDone(w.tracesRef))),
                 !.tracesRef = <<>>, !.activeTraces = <<>>,
                 !.streamingContent = "", !.isTyping = FALSE]

\* fault: the finalization of an approval turn leaves isTyping set
FinalizeApprovalKeepsTyping(w, decision) ==
  IF w.interruptRef THEN w
  ELSE LET full == IF decision = "reject" /\ w.fullContent = ""
                   THEN RejectedText ELSE w.fullContent
           content == IF full = "" THEN DoneText ELSE full
       IN [w EXCEPT !.fullContent = full,
                    !.messages = Append(w.messages, AgentMessage(content, AllDone(w.tracesRef))),
                    !.tracesRef = <<>>, !.activeTraces = <<>>,
                    !.streamingContent = ""]

\* fault: the finalization of an approval turn resets the token counters
FinalizeApprovalResetsTokens(w, decision) ==
  IF w.interruptRef THEN w
  ELSE LET full == IF decision = "reject" /\ w.fullContent = ""
                   THEN RejectedText ELSE w.fullContent
           content == IF full = "" THEN DoneText ELSE full
       IN [w EXCEPT !.fullContent = full,
                    !.messages = Append(w.messages, AgentMessage(content, AllDone(w.tracesRef))),
                    !.tracesRef = <<>>, !.activeTraces = <<>>,
                    !.streamingContent = "", !.isTyping = FALSE,
                    !.sessionTokens = [input |-> 0, output |-> 0, total |-> 0,
                                       reasoning |-> 0]]

\* handleApproval after the try statement (its catch only logs)
FinalizeApproval(w, decision) ==
  IF w.interruptRef THEN w
  ELSE LET full == IF decision = "reject" /\ w.fullContent = ""
                   THEN RejectedText ELSE w.fullContent
           content == IF full = "" THEN DoneText ELSE full
       IN [w EXCEPT !.fullContent = full,
                    !.messages = Append(w.messages, AgentMessage(content, AllDone(w.tracesRef))),
                    !.tracesRef = <<>>, !.activeTraces = <<>>,
                    !.streamingContent = "", !.isTyping = FALSE]

\* the call's way out of the try statement: threw says the client threw
Finish(op, w, threw, errorMsg) ==
  IF op.kind = "send"
  THEN FinalizeSend(IF threw THEN SendCatch(w, op.aborted, errorMsg) ELSE w)
  ELSE FinalizeApproval(w, op.decision)

\* fault: the signal is not handed on to fetch
FetchIgnoresSignal(signalGiven) == FALSE

\* fetch(..., {signal}) rejects, and the reader of its body rejects, once the
\* signal it was given is aborted
FetchHonoursSignal(signalGiven) == signalGiven

\* history: the interrupt gate after the handler got an event
GateAfterEvent(event) ==
  IF event.type = "interrupt" /\ ~gate.on
  THEN [on |-> TRUE, agentMsgs |-> AgentCount(messages), text |-> streamingContent,
        traces |-> tracesRef]
  ELSE gate

\* history: the gate after the call op ended: the stream of an approval that
\* ended without a further interrupt opens it
GateAfterEnd(op, g) ==
  IF op.kind = "approval" /\ ~op.gotInterrupt
  THEN [on |-> FALSE, agentMsgs |-> 0, text |-> "", traces |-> <<>>] ELSE g

\* history: the sums of the usage events received, after one more event
SeenAfter(event) ==
  IF event.type = "usage"
  THEN [input |-> usageSeen.input + event.inputTokens,
        output |-> usageSeen.output + event.outputTokens,
        total |-> usageSeen.total + event.totalTokens,
        reasoning |-> usageSeen.reasoning + event.reasoningTokens]
  ELSE usageSeen

\* history: tokens only ("tokens"), tokens then one done ("tokensDone")
ShapeAfter(shape, event) ==
  CASE shape \in {"start", "tokens"} /\ event.type = "token" -> "tokens"
    [] shape = "tokens" /\ event.type = "done" -> "tokensDone"
    [] OTHER -> "other"

\* the record of call o once the handler got event
OpAfterEvent(op, event) ==
  [op EXCEPT !.calls = @ + 1,
             !.gotInterrupt = @ \/ event.type = "interrupt",
             !.shape = ShapeAfter(@, event)]

\* the variables after the handler ran in call o: w is the world it left and
\* op the record of the call
StoreWorld(o, w, op) ==
  /\ streamingContent' = w.streamingContent
  /\ tracesRef' = w.tracesRef
  /\ activeTraces' = w.activeTraces
  /\ sessionTokens' = w.sessionTokens
  /\ pendingInterrupt' = w.pendingInterrupt
  /\ interruptRef' = w.interruptRef
  /\ messages' = w.messages
  /\ isTyping' = w.isTyping
  /\ ops' = [ops EXCEPT ![o] = [op EXCEPT !.rawContent = w.rawContent,
                                          !.fullContent = w.fullContent]]

\* the variables after call o ended: w0 is the world before its last step,
\* w the world its finalization left, op the record of the call; the slot is
\* free again
EndCall(o, op, w0, w, status, cause, threw, lastEvent) ==
  /\ streamingContent' = w.streamingContent
  /\ tracesRef' = w.tracesRef
  /\ activeTraces' = w.activeTraces
  /\ sessionTokens' = w.sessionTokens
  /\ pendingInterrupt' = w.pendingInterrupt
  /\ interruptRef' = w.interruptRef
  /\ messages' = w.messages
  /\ isTyping' = w.isTyping
  /\ ops' = [ops EXCEPT ![o] = NoOp]
  /\ last' = [kind |-> op.kind, status |-> status, cause |-> cause,
              outcome |-> IF threw THEN "threw" ELSE "normal",
              appended |-> AgentCount(w.messages) - AgentCount(w0.messages),
              content |-> IF Len(w.messages) > Len(w0.messages)
                          THEN w.messages[Len(w.messages)].content ELSE "",
              endPending |-> w.pendingInterrupt # NoInterrupt,
              calls |-> op.calls, abortCalls |-> op.abortCalls,
              aborted |-> op.aborted, signal |-> op.signal, shape |-> op.shape,
              lastEvent |-> lastEvent, bodyRead |-> op.pc = "read",
              display |-> w0.fullContent, decision |-> op.decision,
              idleAfter |-> /\ ~w.isTyping
                            /\ w.streamingContent = ""
                            /\ w.tracesRef = <<>>
                            /\ w.activeTraces = <<>>]
  /\ gate' = GateAfterEnd(op, gate)
  /\ UNCHANGED usageSeen

\* ------------------------------------------------------------ chat actions
\* what the user can type
InputTexts == {"hi", " "}

\* the payloads of the events a response stream delivers
EventChoices ==
  {[type |-> "token", content |-> "Hi"],
   [type |-> "token", content |-> " "],
   [type |-> "tool_start", id |-> "t1", name |-> "search", skillId |-> "websearch",
    icon |-> "wrench", action |-> "search", input |-> ""],
   [type |-> "tool_end", id |-> "t1", name |-> "search", output |-> "", duration |-> 120],
   [type |-> "error", message |-> "boom"],
   [type |-> "usage", inputTokens |-> 10, outputTokens |-> 5, totalTokens |-> 15,
    reasoningTokens |-> 2],
   [type |-> "interrupt", actionRequests |-> <<>>,
    allowedDecisions |-> <<"approve", "reject">>],
   [type |-> "done"]}

\* the App once a build has ended in the chat phase, with the session id the
\* create call gave (NoSession when it failed)
AppInChat(sid) ==
  [phase |-> "chat", inputMode |-> "website", selectedModel |-> "m1",
   addedSkills |-> {"websearch"}, timer |-> FALSE, creating |-> FALSE,
   builds |-> 1, createCalls |-> 1,
   created |-> IF sid = NoSession THEN <<>> ELSE <<sid>>,
   deleteCalls |-> <<>>,
   lastCreate |-> [status |-> IF sid = NoSession THEN 500 ELSE 200, body |-> "",
                   threw |-> sid = NoSession,
                   message |-> IF sid = NoSession THEN "Failed to create agent: " ELSE "",
                   id |-> sid],
   sandboxMap |-> {}, sandboxMode |-> FALSE, showSandboxInfo |-> FALSE,
   captured |-> {},
   request |-> [modelId |-> "m1", skillIds |-> {"websearch"}, sandboxMap |-> {},
                modelState |-> "m1", skillsState |-> {"websearch"},
                sandboxMapState |-> {}]]

\* the state of a ChatSection right after its greeting effect
ChatMounted(sid) ==
  /\ messages = <<AgentMessage(GreetingText, <<>>)>>
  /\ input = ""
  /\ isTyping = FALSE
  /\ streamingContent = ""
  /\ activeTraces = <<>>
  /\ tracesRef = <<>>
  /\ pendingInterrupt = NoInterrupt
  /\ interruptRef = FALSE
  /\ sessionTokens = [input |-> 0, output |-> 0, total |-> 0, reasoning |-> 0]
  /\ sessionId = sid
  /\ ops = [o \in OpIds |-> NoOp]
  /\ nOps = 0
  /\ nEvents = 0
  /\ last = NoLast
  /\ gate = [on |-> FALSE, agentMsgs |-> 0, text |-> "", traces |-> <<>>]
  /\ usageSeen = [input |-> 0, output |-> 0, total |-> 0, reasoning |-> 0]

\* the chat screen right after its greeting effect
InitChat(sid) ==
  /\ ChatMounted(sid)
  /\ app = AppInChat(sid)

SseOff ==
  /\ frames = <<>>
  /\ eol = "\n"
  /\ stream = ""
  /\ pos = 0
  /\ buffer = ""
  /\ ssePc = "off"
  /\ handled = <<>>
  /\ normText = ""

Init == (\E sid \in {NoSession, "s1"} : InitChat(sid)) /\ SseOff

\* the user edits the input field (disabled while isTyping)
SetInput(text) ==
  /\ ~isTyping
  /\ text # input
  /\ input' = text
  /\ UNCHANGED <<messages, isTyping, streamingContent, activeTraces, tracesRef,
                 pendingInterrupt, interruptRef, sessionTokens, sessionId, app, ops, nOps,
                 nEvents, last, gate, usageSeen, sseVars>>

\* a call of sendMessage or sendApproval that awaits its fetch
NewOp(kind, decision, signalGiven) ==
  [NoOp EXCEPT !.kind = kind, !.pc = "fetch", !.decision = decision,
               !.timer = TRUE, !.signal = signalGiven]

FreeSlot == CHOOSE o \in OpIds : ops[o].kind = "none" /\ \A q \in 1..(o - 1) : ops[q].kind # "none"

\* fault: the send without a session sets isTyping before it gives up
SendWithoutSessionSetsTyping ==
  /\ sessionId = NoSession
  /\ Len(messages) < MaxLocalMessages
  /\ messages' = Append(messages, AgentMessage(NoSessionText, <<>>))
  /\ isTyping' = TRUE
  /\ UNCHANGED <<input, streamingContent, activeTraces, tracesRef,
                 pendingInterrupt, interruptRef, sessionTokens, sessionId, app, ops,
                 nOps, nEvents, last, gate, usageSeen, sseVars>>

\* handleSend without a session: the local message, and return
SendWithoutSession ==
  /\ sessionId = NoSession
  /\ Len(messages) < MaxLocalMessages
  /\ messages' = Append(messages, AgentMessage(NoSessionText, <<>>))
  /\ UNCHANGED <<input, isTyping, streamingContent, activeTraces, tracesRef,
                 pendingInterrupt, interruptRef, sessionTokens, sessionId, app, ops,
                 nOps, nEvents, last, gate, usageSeen, sseVars>>

\* handleSend up to its await of sendMessage
HandleSend ==
  \/ /\ Trim(input) = "" \/ isTyping
     /\ UNCHANGED vars
  \/ /\ ~(Trim(input) = "" \/ isTyping)
     /\ SendWithoutSession
  \/ /\ ~(Trim(input) = "" \/ isTyping)
     /\ sessionId # NoSession
     /\ nOps < MaxOps
     /\ messages' = Append(messages, UserMessage(input))
     /\ input' = ""
     /\ isTyping' = TRUE
     /\ streamingContent' = ""
     /\ tracesRef' = <<>>
     /\ activeTraces' = <<>>
     /\ interruptRef' = FALSE
     /\ pendingInterrupt' = NoInterrupt
     /\ nOps' = nOps + 1
     /\ ops' = [ops EXCEPT ![FreeSlot] = NewOp("send", "", TRUE)]
     /\ UNCHANGED <<sessionTokens, sessionId, app, nEvents, last, gate, usageSeen, sseVars>>

\* handleApproval up to its await of sendApproval; the buttons that call it
\* are rendered while pendingInterrupt is set.  controller.signal is passed
\* as the fourth argument, editedArgs: sendApproval gets no signal
HandleApproval(decision) ==
  /\ pendingInterrupt # NoInterrupt
  /\ sessionId # NoSession
  /\ nOps < MaxOps
  /\ pendingInterrupt' = NoInterrupt
  /\ interruptRef' = FALSE
  /\ nOps' = nOps + 1
  /\ ops' = [ops EXCEPT ![FreeSlot] = NewOp("approval", decision, FALSE)]
  /\ UNCHANGED <<messages, input, isTyping, streamingContent, activeTraces, tracesRef,
                 sessionTokens, sessionId, app, nEvents, last, gate, usageSeen, sseVars>>

\* fault: a response that is not ok makes the client throw
OnBadResponseThrows(kind, status) == [events |-> <<>>, threw |-> TRUE]

\* what sendMessage / sendApproval do with a response that is not ok, or has
\* no body: the events they hand to onEvent, and whether they throw
OnBadResponse(kind, status) ==
  [events |-> <<[type |-> "error", message |->
                   IF status = "no_body" THEN "No response body"
                   ELSE IF kind = "send" THEN "Server error 500"
                   ELSE "Approval failed: 500"]>>,
   threw |-> FALSE]

\* onEvent for each event of a sequence, in order
RECURSIVE FoldEvents(_, _)
FoldEvents(w, events) ==
  IF events = <<>> THEN w ELSE FoldEvents(OnEvent(w, Head(events)), Tail(events))

\* the fetch of call o resolves
FetchResolve(o) ==
  /\ ops[o].pc = "fetch"
  /\ \E status \in {"ok", "http_error", "no_body"} :
       IF status = "ok"
       THEN /\ ops' = [ops EXCEPT ![o].pc = "read"]
            /\ UNCHANGED <<messages, isTyping, streamingContent, activeTraces,
                           tracesRef, pendingInterrupt, interruptRef, sessionTokens,
                           last, gate, usageSeen>>
       ELSE LET r == OnBadResponse(ops[o].kind, status)
                w1 == FoldEvents(World(o), r.events)
                op1 == [ops[o] EXCEPT !.calls = @ + Len(r.events), !.shape = "other"]
            IN EndCall(o, op1, World(o), Finish(op1, w1, r.threw, NetworkErrorMsg), status,
                       "bad_response", r.threw,
                       IF r.events = <<>> THEN "none" ELSE r.events[Len(r.events)].type)
  /\ UNCHANGED <<input, sessionId, app, nOps, nEvents, sseVars>>

\* a chunk with one event arrives for call o and the handler runs
Deliver(o, event) ==
  /\ ops[o].pc = "read"
  /\ nEvents < MaxEvents
  /\ nEvents' = nEvents + 1
  /\ StoreWorld(o, OnEvent(World(o), event), OpAfterEvent(ops[o], event))
  /\ gate' = GateAfterEvent(event)
  /\ usageSeen' = SeenAfter(event)
  /\ UNCHANGED <<input, sessionId, app, nOps, last, sseVars>>

\* reader.read() of call o reports the end of the body: the client returns
StreamEnd(o) ==
  /\ ops[o].pc = "read"
  /\ EndCall(o, ops[o], World(o), Finish(ops[o], World(o), FALSE, ""), "ok", "end",
             FALSE, "none")
  /\ UNCHANGED <<input, sessionId, app, nOps, nEvents, sseVars>>

\* the 60 s timer of call o fires: controller.abort(); the timer is armed only
\* while the client operation is awaited (the finally clears it)
TimerFires(o) ==
  /\ ops[o].timer
  /\ ops[o].pc \in {"fetch", "read"}
  /\ LET op1 == [ops[o] EXCEPT !.aborted = TRUE, !.timer = FALSE,
                               !.abortCalls = ops[o].calls]
     IN IF FetchHonoursSignal(ops[o].signal)
        THEN EndCall(o, op1, World(o), Finish(op1, World(o), TRUE, AbortErrorMsg),
                     IF ops[o].pc = "read" THEN "ok" ELSE "pending", "abort", TRUE,
                     "none")
        ELSE /\ ops' = [ops EXCEPT ![o] = op1]
             /\ UNCHANGED <<messages, isTyping, streamingContent, activeTraces,
                            tracesRef, pendingInterrupt, interruptRef, sessionTokens,
                            last, gate, usageSeen>>
  /\ UNCHANGED <<input, sessionId, app, nOps, nEvents, sseVars>>

\* the network fails while call o awaits its fetch or a read: the client throws
TransportError(o) ==
  /\ ops[o].pc \in {"fetch", "read"}
  /\ EndCall(o, ops[o], World(o), Finish(ops[o], World(o), TRUE, NetworkErrorMsg),
             IF ops[o].pc = "read" THEN "ok" ELSE "pending", "network", TRUE, "none")
  /\ UNCHANGED <<input, sessionId, app, nOps, nEvents, sseVars>>

Next ==
  \/ \E text \in InputTexts : SetInput(text)
  \/ HandleSend
  \/ \E decision \in {"approve", "reject"} : HandleApproval(decision)
  \/ \E o \in OpIds : FetchResolve(o)
  \/ \E o \in OpIds, event \in EventChoices : Deliver(o, event)
  \/ \E o \in OpIds : StreamEnd(o)
  \/ \E o \in OpIds : TimerFires(o)
  \/ \E o \in OpIds : TransportError(o)

Spec == Init /\ [][Next]_vars

\* ------------------------------------------------- one response, byte level
\* The frames a server writes: label is the text of the event: line, payload
\* the text of the data: line ("" when the line is missing), comment says
\* that a keep-alive comment line precedes them.
FrameKinds ==
  {[label |-> "token", payload |-> "{\"content\":\"Hi\"}", comment |-> FALSE],
   [label |-> "done", payload |-> "{}", comment |-> FALSE],
   [label |-> "token", payload |-> "{", comment |-> FALSE],
   [label |-> "ping", payload |-> "{}", comment |-> FALSE],
   [label |-> "usage", payload |-> "{\"total_tokens\":3}", comment |-> TRUE],
   [label |-> "tool_start", payload |-> "{\"id\":\"t1\",\"name\":\"ls\"}", comment |-> FALSE],
   [label |-> "error", payload |-> "", comment |-> FALSE]}

\* the frames of the streams with CRLF line endings
CrlfFrameKinds ==
  {[label |-> "token", payload |-> "{\"content\":\"Hi\"}", comment |-> FALSE],
   [label |-> "done", payload |-> "{}", comment |-> FALSE]}

KnownLabels == {"token", "tool_start", "tool_end", "error", "done", "interrupt", "usage"}

\* a frame with a type label and a payload that is not JSON
Malformed(f) == f.label # "" /\ f.payload # "" /\ ~IsJson(f.payload)

\* a frame that carries an event
Carries(f) == f.label \in KnownLabels /\ f.payload # "" /\ IsJson(f.payload)

\* the bytes of a frame: its lines, then the blank line
Serialize(f, e) ==
  (IF f.comment THEN ":" \o e ELSE "")
  \o (IF f.label # "" THEN "event:" \o f.label \o e ELSE "")
  \o (IF f.payload # "" THEN "data:" \o f.payload \o e ELSE "")
  \o e

RECURSIVE SerializeAll(_, _)
SerializeAll(fs, e) ==
  IF fs = <<>> THEN "" ELSE Serialize(Head(fs), e) \o SerializeAll(Tail(fs), e)

\* the events of the frames that carry one, in the order of the frames
RECURSIVE ExpectedEvents(_)
ExpectedEvents(fs) ==
  IF fs = <<>> THEN <<>>
  ELSE (IF Carries(Head(fs))
        THEN <<MapParsed(Head(fs).label, JsonTable[Head(fs).payload])>>
        ELSE <<>>) \o ExpectedEvents(Tail(fs))

\* buffer.indexOf('\n\n'), 1-based, 0 when there is none
BlockEnd(buf) == IndexOf(buf, "\n\n")

\* buffer.substring(0, blockEnd)
BlockOf(buf) == SubSeq(buf, 1, BlockEnd(buf) - 1)

\* fault: the buffer is emptied after a block
RestOfDropsTail(buf) == ""

\* buffer.substring(blockEnd + 2)
RestOf(buf) == SubSeq(buf, BlockEnd(buf) + 2, Len(buf))

\* decoder.decode(value, {stream: true}).replace(/\r\n/g, '\n') of a chunk
NormalizeChunk(chunk) == ReplaceCRLF(chunk)

\* the events the inner loop of _parseSSE hands over for a buffer
RECURSIVE DecodeBuffer(_)
DecodeBuffer(buf) ==
  IF BlockEnd(buf) = 0 THEN <<>>
  ELSE (IF BlockEvent(BlockOf(buf)) = NoEvent THEN <<>> ELSE <<BlockEvent(BlockOf(buf))>>)
       \o DecodeBuffer(RestOf(buf))

\* the events of a body that arrives as one chunk
DecodeWhole(body) == DecodeBuffer(NormalizeChunk(body))

\* the chat after handleSend started a call and its fetch resolved with ok
InitStreaming ==
  /\ messages = <<AgentMessage(GreetingText, <<>>), UserMessage("hi")>>
  /\ input = ""
  /\ isTyping = TRUE
  /\ streamingContent = ""
  /\ activeTraces = <<>>
  /\ tracesRef = <<>>
  /\ pendingInterrupt = NoInterrupt
  /\ interruptRef = FALSE
  /\ sessionTokens = [input |-> 0, output |-> 0, total |-> 0, reasoning |-> 0]
  /\ sessionId = "s1"
  /\ ops = [o \in OpIds |-> IF o = 1 THEN [NewOp("send", "", TRUE) EXCEPT !.pc = "read"]
                            ELSE NoOp]
  /\ nOps = 1
  /\ nEvents = 0
  /\ last = NoLast
  /\ gate = [on |-> FALSE, agentMsgs |-> 0, text |-> "", traces |-> <<>>]
  /\ usageSeen = [input |-> 0, output |-> 0, total |-> 0, reasoning |-> 0]
  /\ app = AppInChat("s1")

FrameSeqs(kinds) == UNION {[1..n -> kinds] : n \in 1..MaxFrames}

\* a call of _parseSSE on a body of frames of the given kinds and line ending
InitBody(kinds, e) ==
  /\ InitStreaming
  /\ frames \in FrameSeqs(kinds)
  /\ eol = e
  /\ stream = SerializeAll(frames, eol)
  /\ pos = 0
  /\ buffer = ""
  /\ ssePc = "read"
  /\ handled = <<>>
  /\ normText = ""

InitSSE == InitBody(FrameKinds, "\n")

InitCRLF == InitBody(CrlfFrameKinds, "\r\n")

\* reader.read() gives the next n bytes; they are appended to the buffer
ReadChunk(n) ==
  /\ ssePc = "read"
  /\ pos + n <= Len(stream)
  /\ LET chunk == NormalizeChunk(SubSeq(stream, pos + 1, pos + n)) IN
     /\ buffer' = buffer \o chunk
     /\ normText' = normText \o chunk
     /\ ssePc' = IF BlockEnd(buffer \o chunk) # 0 THEN "scan" ELSE "read"
  /\ pos' = pos + n
  /\ UNCHANGED <<uiVars, app, frames, eol, stream, handled>>

\* one turn of the inner loop: the first block leaves the buffer and its
\* event, if it has one, goes to the handler
ProcessBlock ==
  /\ ssePc = "scan"
  /\ LET event == BlockEvent(BlockOf(buffer)) IN
     /\ buffer' = RestOf(buffer)
     /\ ssePc' = IF BlockEnd(RestOf(buffer)) # 0 THEN "scan" ELSE "read"
     /\ IF event = NoEvent
        THEN UNCHANGED <<uiVars, app, handled>>
        ELSE /\ handled' = Append(handled, event)
             /\ StoreWorld(1, OnEvent(World(1), event), OpAfterEvent(ops[1], event))
             /\ gate' = GateAfterEvent(event)
             /\ usageSeen' = SeenAfter(event)
             /\ nEvents' = nEvents + 1
             /\ UNCHANGED <<input, sessionId, app, nOps, last>>
  /\ UNCHANGED <<frames, eol, stream, pos, normText>>

\* reader.read() reports the end of the body: _parseSSE and sendMessage return
BodyEnd ==
  /\ ssePc = "read"
  /\ pos = Len(stream)
  /\ ssePc' = "done"
  /\ EndCall(1, ops[1], World(1), Finish(ops[1], World(1), FALSE, ""), "ok", "end",
             FALSE, "none")
  /\ UNCHANGED <<input, sessionId, app, nOps, nEvents, frames, eol, stream, pos, buffer,
                 handled, normText>>

NextSSE ==
  \/ \E n \in 1..Len(stream) : ReadChunk(n)
  \/ ProcessBlock
  \/ BodyEnd

SpecSSE == InitSSE /\ [][NextSSE]_vars

SpecCRLF == InitCRLF /\ [][NextSSE]_vars

\* ------------------------------------------------ one turn, handler level
\* the tool events a stream delivers: two invocations, a tool_end for each
\* and a second tool_end of t1 with another duration
ToolEventChoices ==
  {[type |-> "tool_start", id |-> "t1", name |-> "search", skillId |-> "websearch",
    icon |-> "wrench", action |-> "search", input |-> ""],
   [type |-> "tool_start", id |-> "t2", name |-> "ls", skillId |-> "api",
    icon |-> "wrench", action |-> "", input |-> ""],
   [type |-> "tool_end", id |-> "t1", name |-> "search", output |-> "", duration |-> 120],
   [type |-> "tool_end", id |-> "t1", name |-> "search", output |-> "", duration |-> 7],
   [type |-> "tool_end", id |-> "t2", name |-> "ls", output |-> "", duration |-> 7]}

\* the raw texts the token events of a turn spell out, with the text the
\* reader is to see of each: the raw text without its thinking spans, whose
\* content is written B
RawTexts ==
  {[raw |-> "A<think>B</think>C", shown |-> "AC"],
   [raw |-> "A<think>B", shown |-> "A"],
   [raw |-> "A <think>BB", shown |-> "A "],
   [raw |-> "<think>B</think>C<think>B</think>D", shown |-> "CD"],
   [raw |-> "Hello world", shown |-> "Hello world"],
   [raw |-> " Hi", shown |-> " Hi"]}

\* what the reader is to see of a raw text
Shown(raw) == (CHOOSE t \in RawTexts : t.raw = raw).shown

\* a send turn whose stream is open; stream holds the raw text its token
\* events will spell out, handled the tool events it delivered
InitTurn(raws) ==
  /\ InitStreaming
  /\ frames = <<>>
  /\ eol = "\n"
  /\ stream \in raws
  /\ pos = 0
  /\ buffer = ""
  /\ ssePc = "off"
  /\ handled = <<>>
  /\ normText = ""

\* the stream delivers a tool event
ToolEvent(event) ==
  /\ ops[1].pc = "read"
  /\ Len(handled) < MaxToolEvents
  /\ handled' = Append(handled, event)
  /\ nEvents' = nEvents + 1
  /\ StoreWorld(1, OnEvent(World(1), event), OpAfterEvent(ops[1], event))
  /\ gate' = GateAfterEvent(event)
  /\ usageSeen' = SeenAfter(event)
  /\ UNCHANGED <<input, sessionId, app, nOps, last, frames, eol, stream, pos, buffer, ssePc,
                 normText>>

\* the stream delivers the next n characters of the raw text as a token event
TokenEvent(n) ==
  /\ ops[1].pc = "read"
  /\ pos + n <= Len(stream)
  /\ pos' = pos + n
  /\ nEvents' = nEvents + 1
  /\ LET event == [type |-> "token", content |-> SubSeq(stream, pos + 1, pos + n)] IN
     /\ StoreWorld(1, OnEvent(World(1), event), OpAfterEvent(ops[1], event))
     /\ gate' = GateAfterEvent(event)
     /\ usageSeen' = SeenAfter(event)
  /\ UNCHANGED <<input, sessionId, app, nOps, last, frames, eol, stream, buffer, ssePc,
                 handled, normText>>

\* the stream ends once the raw text is spelt out
TurnEnd ==
  /\ pos = Len(stream)
  /\ StreamEnd(1)

\* a turn of tool events
InitTools == InitTurn({""})

NextTools ==
  \/ \E event \in ToolEventChoices : ToolEvent(event)
  \/ TurnEnd

SpecTools == InitTools /\ [][NextTools]_vars

\* a turn of token events, for every way of cutting the raw text into tokens
InitTokens == InitTurn({t.raw : t \in RawTexts})

NextTokens ==
  \/ \E n \in 1..Len(stream) : TokenEvent(n)
  \/ TurnEnd

SpecTokens == InitTokens /\ [][NextTokens]_vars

\* a turn of error and token events
ErrorTurnChoices ==
  {[type |-> "error", message |-> "boom"],
   [type |-> "error", message |-> "oops"],
   [type |-> "token", content |-> "Hi"],
   [type |-> "done"]}

NextErrors ==
  \/ \E event \in ErrorTurnChoices : ToolEvent(event)
  \/ TurnEnd

SpecErrors == InitTools /\ [][NextErrors]_vars

\* a turn that is interrupted, and the approval that resumes it
InterruptChoices ==
  {[type |-> "interrupt", actionRequests |-> <<>>,
    allowedDecisions |-> <<"approve", "reject">>],
   [type |-> "interrupt", actionRequests |-> <<>>, allowedDecisions |-> <<"approve">>],
   [type |-> "interrupt", actionRequests |-> <<>>,
    allowedDecisions |-> <<"approve", "edit">>],
   [type |-> "token", content |-> "Hi"]}

NextApproval ==
  \/ \E event \in InterruptChoices : ToolEvent(event)
  \/ \E decision \in {"approve", "reject"} : HandleApproval(decision)
  \/ \E o \in OpIds : FetchResolve(o)
  \/ \E o \in OpIds : StreamEnd(o)

SpecApproval == InitTools /\ [][NextApproval]_vars

\* ------------------------------------------------- the App: session life
\* the models of the soul picker and the skills of the palette
Models == {"m1"}

AllSkills == {"websearch", "api"}

InputModes == {"website", "visual"}

\* the id the server gives to the session of the n-th create call
SessionName(n) == "s" \o ToString(n)

Range(seq) == {seq[i] : i \in 1..Len(seq)}

\* the sessions created and not deleted
LiveSessions == Range(app.created) \ Range(app.deleteCalls)

\* fault: a teardown issues no delete call
DeleteCallsSkipped(sid) == app.deleteCalls

\* the delete calls issued once a teardown has found the session id sid
DeleteCallsAfter(sid) ==
  IF sid # NoSession THEN Append(app.deleteCalls, sid) ELSE app.deleteCalls

chatVars == <<messages, input, isTyping, streamingContent, activeTraces, tracesRef,
              pendingInterrupt, interruptRef, sessionTokens, ops, nOps, nEvents, last,
              gate, usageSeen>>

\* history: no create call has ended yet.  status is the HTTP status of the
\* response (0: the fetch itself failed), body its text, threw, message and id
\* what createAgentSession did with it
NoCreate == [status |-> 0, body |-> "", threw |-> FALSE, message |-> "", id |-> NoSession]

\* the statuses and the bodies of the responses to POST /api/agent
HttpStatuses == {200, 201, 301, 400, 404, 500}

ErrorBodies == {"", "quota exceeded"}

\* fault: only the server errors count as failures
ResponseOkBelow500(status) == status < 500

\* response.ok
ResponseOk(status) == status \in 200..299

\* createAgentSession on the response to its n-th request: the session id of
\* the JSON body, or an Error whose message carries the text of the body
CreateAgentSession(status, body, n) ==
  IF ResponseOk(status)
  THEN [status |-> status, body |-> body, threw |-> FALSE, message |-> "",
        id |-> SessionName(n)]
  ELSE [status |-> status, body |-> body, threw |-> TRUE,
        message |-> "Failed to create agent: " \o body, id |-> NoSession]

\* createAgentSession when fetch rejects: the rejection passes through
CreateFetchFailed ==
  [status |-> 0, body |-> "", threw |-> TRUE, message |-> NetworkErrorMsg,
   id |-> NoSession]

\* handleBuildComplete after its await: the id is stored unless the call
\* threw; the chat phase either way
AfterCreate(r) ==
  /\ app.creating
  /\ sessionId' = IF r.threw THEN sessionId ELSE r.id
  /\ app' = [app EXCEPT !.creating = FALSE, !.phase = "chat", !.lastCreate = r,
                        !.created = IF r.id = NoSession THEN @ ELSE Append(@, r.id)]
  /\ UNCHANGED <<chatVars, sseVars>>

\* the skills that can run in a sandbox
Sandboxable == {"websearch"}

\* history: no create request has been issued yet.  modelId, skillIds and
\* sandboxMap are the arguments of the last createAgentSession call,
\* modelState, skillsState and sandboxMapState the selectedModel, addedSkills
\* and sandboxMap states when it was issued
NoRequest ==
  [modelId |-> "null", skillIds |-> {}, sandboxMap |-> {}, modelState |-> "null",
   skillsState |-> {}, sandboxMapState |-> {}]

\* the sandboxMap in the closure of handleBuildComplete after a render: the
\* callback is memoised on [selectedModel, addedSkills] and is made anew,
\* with the sandboxMap of that render, only when one of the two changed
Captured(depsChanged, sandboxMapNow) ==
  IF depsChanged THEN sandboxMapNow ELSE app.captured

\* the App as first rendered; no ChatSection is mounted before the chat phase
InitApp ==
  /\ ChatMounted(NoSession)
  /\ SseOff
  /\ app = [phase |-> "soul", inputMode |-> "website", selectedModel |-> "null",
            addedSkills |-> {}, timer |-> FALSE, creating |-> FALSE,
            builds |-> 0, createCalls |-> 0, created |-> <<>>,
            deleteCalls |-> <<>>, lastCreate |-> NoCreate,
            sandboxMap |-> {}, sandboxMode |-> FALSE, showSandboxInfo |-> FALSE,
            captured |-> {}, request |-> NoRequest]

\* the soul picker, on screen in the soul phase only, selects a model
HandleSoulSelect(model) ==
  /\ app.phase = "soul"
  /\ app' = [app EXCEPT !.selectedModel = model, !.phase = "builder",
                        !.captured = Captured(model # app.selectedModel, app.sandboxMap)]
  /\ UNCHANGED <<sessionId, chatVars, sseVars>>

\* a skill is dropped on the agent (the palette is on screen in the builder
\* and building phases)
HandleDragEnd(skill) ==
  /\ app.phase \in {"builder", "building"}
  /\ skill \notin app.addedSkills
  /\ app' = [app EXCEPT !.addedSkills = @ \cup {skill},
                        !.captured = Captured(TRUE, app.sandboxMap)]
  /\ UNCHANGED <<sessionId, chatVars, sseVars>>

HandleRemoveSkill(skill) ==
  /\ app.phase \in {"builder", "building"}
  /\ skill \in app.addedSkills
  /\ app' = [app EXCEPT !.addedSkills = @ \ {skill},
                        !.sandboxMap = @ \ {skill},
                        !.captured = Captured(TRUE, app.sandboxMap \ {skill})]
  /\ UNCHANGED <<sessionId, chatVars, sseVars>>

\* the sandbox button of the header (builder, building and chat phases):
\* it opens the info modal, or turns the mode off and empties the map
HandleToggleSandboxMode ==
  /\ app.phase \in {"builder", "building", "chat"}
  /\ IF ~app.sandboxMode
     THEN app' = [app EXCEPT !.showSandboxInfo = TRUE]
     ELSE app' = [app EXCEPT !.sandboxMode = FALSE, !.sandboxMap = {},
                             !.captured = Captured(FALSE, {})]
  /\ app' # app
  /\ UNCHANGED <<sessionId, chatVars, sseVars>>

\* the confirm button of the info modal: every sandboxable skill already
\* added is put in the map
HandleConfirmSandboxMode ==
  /\ app.showSandboxInfo
  /\ app' = [app EXCEPT !.sandboxMode = TRUE, !.showSandboxInfo = FALSE,
                        !.sandboxMap = app.addedSkills \cap Sandboxable,
                        !.captured = Captured(FALSE, app.addedSkills \cap Sandboxable)]
  /\ UNCHANGED <<sessionId, chatVars, sseVars>>

\* the cancel button and the backdrop of the info modal
CancelSandboxInfo ==
  /\ app.showSandboxInfo
  /\ app' = [app EXCEPT !.showSandboxInfo = FALSE]
  /\ UNCHANGED <<sessionId, chatVars, sseVars>>

\* the build button, enabled in the builder phase with a skill added; the
\* BuildAnimation becomes active and sets its completion timer
HandleBuild ==
  /\ app.phase = "builder"
  /\ app.addedSkills # {}
  /\ app.builds < MaxBuilds
  /\ IF app.selectedModel # "null"
     THEN app' = [app EXCEPT !.phase = "building", !.timer = TRUE, !.builds = @ + 1]
     ELSE UNCHANGED app
  /\ UNCHANGED <<sessionId, chatVars, sseVars>>

\* the completion timer of the BuildAnimation fires and calls
\* handleBuildComplete, which starts the create call
HandleBuildComplete ==
  /\ app.timer
  /\ IF app.selectedModel = "null"
     THEN app' = [app EXCEPT !.timer = FALSE]
     ELSE app' = [app EXCEPT !.timer = FALSE, !.creating = TRUE, !.createCalls = @ + 1,
                             !.request = [modelId |-> app.selectedModel,
                                          skillIds |-> app.addedSkills,
                                          sandboxMap |-> app.captured,
                                          modelState |-> app.selectedModel,
                                          skillsState |-> app.addedSkills,
                                          sandboxMapState |-> app.sandboxMap]]
  /\ UNCHANGED <<sessionId, chatVars, sseVars>>

\* the response to the create request has a success status
CreateResolves ==
  \E status \in {st \in HttpStatuses : st \in 200..299} :
    AfterCreate(CreateAgentSession(status, "", app.createCalls))

\* the response has another status, or the fetch failed
CreateRejects ==
  \/ \E status \in {st \in HttpStatuses : st \notin 200..299}, body \in ErrorBodies :
       AfterCreate(CreateAgentSession(status, body, app.createCalls))
  \/ AfterCreate(CreateFetchFailed)

\* what handleReset and handleModeSwitch do alike
Teardown(mode) ==
  /\ sessionId' = NoSession
  /\ app' = [app EXCEPT !.deleteCalls = DeleteCallsAfter(sessionId),
                        !.inputMode = mode, !.addedSkills = {},
                        !.phase = "soul", !.selectedModel = "null",
                        !.timer = FALSE, !.sandboxMap = {}, !.sandboxMode = FALSE,
                        !.captured = Captured(TRUE, {})]
  /\ UNCHANGED <<chatVars, sseVars>>

\* the reset button of the ChatSection, mounted in the chat phase only
HandleReset ==
  /\ app.phase = "chat"
  /\ Teardown(app.inputMode)

\* the mode toggle, on screen in the soul phase only
HandleModeSwitch(mode) ==
  /\ app.phase = "soul"
  /\ mode # app.inputMode
  /\ Teardown(mode)

NextApp ==
  \/ \E model \in Models : HandleSoulSelect(model)
  \/ \E skill \in AllSkills : HandleDragEnd(skill)
  \/ \E skill \in AllSkills : HandleRemoveSkill(skill)
  \/ HandleToggleSandboxMode
  \/ HandleConfirmSandboxMode
  \/ CancelSandboxInfo
  \/ HandleBuild
  \/ HandleBuildComplete
  \/ CreateResolves
  \/ CreateRejects
  \/ HandleReset
  \/ \E mode \in InputModes : HandleModeSwitch(mode)

SpecApp == InitApp /\ [][NextApp]_vars

\* ------------------------------------------- the chat screen and its reset
\* The chat phase with the reset button of the ChatSection.  The input field
\* and the buttons are there while the ChatSection is mounted (chat phase);
\* the calls that await their client operation go on after it is unmounted
\* (the state the unmounted component's setters write is kept as history).
NextTeardown ==
  \/ app.phase = "chat" /\ \E text \in InputTexts : SetInput(text)
  \/ app.phase = "chat" /\ HandleSend
  \/ app.phase = "chat" /\ \E decision \in {"approve", "reject"} : HandleApproval(decision)
  \/ HandleReset
  \/ \E o \in OpIds : FetchResolve(o)
  \/ \E o \in OpIds, event \in EventChoices : Deliver(o, event)
  \/ \E o \in OpIds : StreamEnd(o)
  \/ \E o \in OpIds : TimerFires(o)
  \/ \E o \in OpIds : TransportError(o)

InitTeardown == InitChat("s1") /\ SseOff

SpecTeardown == InitTeardown /\ [][NextTeardown]_vars

\* ------------------------------------------------ the event mapper alone
\* the type label and payload text of the blocks that reach the switch
MapperInputs ==
  [label : KnownLabels, payload : DOMAIN JsonTable, comment : {FALSE}]

\* frames holds the labelled payloads to map, handled the events mapped
InitMapper ==
  /\ InitStreaming
  /\ frames \in UNION {[1..n -> MapperInputs] : n \in 1..MaxMapped}
  /\ eol = "\n"
  /\ stream = ""
  /\ pos = 0
  /\ buffer = ""
  /\ ssePc = "off"
  /\ handled = <<>>
  /\ normText = ""

\* JSON.parse and the switch on the next labelled payload
MapNext ==
  /\ pos < Len(frames)
  /\ pos' = pos + 1
  /\ handled' = Append(handled, MapParsed(frames[pos + 1].label,
                                          JsonTable[frames[pos + 1].payload]))
  /\ UNCHANGED <<uiVars, app, frames, eol, stream, buffer, ssePc, normText>>

NextMapper == MapNext

SpecMapper == InitMapper /\ [][NextMapper]_vars

\* ------------------------------------------------------------------ claims
\* the world of the call of InitStreaming before its first event
StreamingWorld ==
  [rawContent |-> "", fullContent |-> "", streamingContent |-> "", tracesRef |-> <<>>,
   activeTraces |-> <<>>,
   sessionTokens |-> [input |-> 0, output |-> 0, total |-> 0, reasoning |-> 0],
   pendingInterrupt |-> NoInterrupt, interruptRef |-> FALSE,
   messages |-> <<AgentMessage(GreetingText, <<>>), UserMessage("hi")>>,
   isTyping |-> TRUE]

\* C1: frame reassembly.  However the body is cut into chunks, the events
\* _parseSSE has handed over when the body ends are those it hands over for
\* the same body arriving as one chunk.
FrameReassembly ==
  (ssePc = "done" /\ Len(frames) >= 2) => handled = DecodeWhole(stream)

\* C2: at most one sendMessage or sendApproval operation is in flight.
AtMostOneInFlight == Cardinality(InFlight) <= 1

\* C3: interrupt gating.  From the interrupt event until the stream of an
\* approval has ended without a further interrupt, isTyping stays true and
\* no agent message is appended.
InterruptGating == gate.on => (isTyping /\ AgentCount(messages) = gate.agentMsgs)

\* C4: a call of handleSend or handleApproval with a session appends at most
\* one agent message, and exactly one when no interrupt is pending at its end.
OneAgentMessagePerTurn ==
  last.kind \in {"send", "approval"} =>
    /\ last.appended <= 1
    /\ ~last.endPending => last.appended = 1

OneAgentMessagePerTurnWitness ==
  /\ last.kind = "approval" /\ ~last.endPending /\ last.appended = 1
  /\ Len(messages) >= 3 /\ messages[Len(messages) - 1].role = "user"

\* C5: events are applied in arrival order, once each.  The events handed to
\* the handler are those of the complete blocks of the text received, in the
\* order of the blocks (for a body with LF line endings: the events of the
\* frames the server wrote, in their order), the handler ran once per event,
\* and the turn state is the left-to-right fold of the handler over them.
EventsAppliedInOrderOnce ==
  /\ ssePc \in {"read", "done"} => handled = DecodeBuffer(normText)
  /\ (ssePc = "done" /\ eol = "\n") => handled = ExpectedEvents(frames)
  /\ ssePc \in {"read", "scan"} =>
       /\ ops[1].calls = Len(handled)
       /\ World(1) = FoldEvents(StreamingWorld, handled)
  /\ ssePc = "done" =>
       LET w == FoldEvents(StreamingWorld, handled) IN
       /\ last.calls = Len(handled)
       /\ last.display = w.fullContent
       /\ sessionTokens = w.sessionTokens
       /\ messages[Len(messages)].traces = AllDone(w.tracesRef)

EventsAppliedInOrderOnceWitness ==
  /\ ssePc = "done"
  /\ Len(handled) = 2
  /\ handled[1].type = "tool_start" /\ handled[2].type = "usage"
  /\ sessionTokens.total = 3
  /\ Len(messages[Len(messages)].traces) = 1

\* C6: cancellation outcome of a send turn.  When the timer aborts a
\* sendMessage call and no interrupt is pending, the call appends one agent
\* message: the timeout text when the call's displayed text was empty, and
\* that text unchanged otherwise.
CancellationOutcome ==
  (last.kind = "send" /\ last.cause = "abort" /\ ~last.endPending) =>
    /\ last.appended = 1
    /\ last.content = IF last.display = "" THEN TimeoutText ELSE last.display

CancellationOutcomeWitness ==
  /\ last.kind = "send" /\ last.cause = "abort" /\ ~last.endPending
  /\ last.display = "Hi" /\ last.content = "Hi"

\* C7: once the signal handed to a client operation is aborted the handler of
\* that operation is not invoked again and the operation ends by throwing; an
\* operation whose body ended returns normally.
NoEventAfterCancel ==
  /\ \A o \in InFlight :
       (ops[o].signal /\ ops[o].aborted) => ops[o].calls = ops[o].abortCalls
  /\ (last.signal /\ last.aborted) =>
       (last.calls = last.abortCalls /\ last.outcome = "threw")
  /\ last.cause = "end" => last.outcome = "normal"

NoEventAfterCancelWitness ==
  /\ last.kind = "send" /\ last.signal /\ last.aborted
  /\ last.bodyRead /\ last.calls = 1 /\ last.outcome = "threw"
  /\ nEvents = 1

\* C8: drop-malformed.  The events handed over for a body are those handed
\* over for the body without its frames that have a label and a payload that
\* is not JSON; the decoder reads the body to its end and returns normally.
DropMalformed ==
  ssePc = "done" =>
    LET valid == SelectSeq(frames, LAMBDA f : ~Malformed(f)) IN
    /\ handled = DecodeWhole(SerializeAll(valid, eol))
    /\ pos = Len(stream)
    /\ last.cause = "end" /\ last.outcome = "normal"

DropMalformedWitness ==
  /\ ssePc = "done"
  /\ Len(frames) = 2
  /\ Malformed(frames[1]) /\ Carries(frames[2])
  /\ Len(handled) = 1

\* C9: on a response whose status is not ok, sendMessage and sendApproval
\* invoke the handler once, with an error event, and return normally without
\* reading the body.
BadStatusOneErrorEvent ==
  last.status = "http_error" =>
    /\ last.calls = 1
    /\ last.lastEvent = "error"
    /\ last.outcome = "normal"
    /\ ~last.bodyRead

BadStatusOneErrorEventWitness ==
  /\ last.kind = "approval" /\ last.status = "http_error"
  /\ last.calls = 1 /\ last.appended = 1

\* C10 as stated: a turn without a pending interrupt that got token events
\* and then a done event appends one agent message whose content is the
\* displayed text, and leaves the chat idle.
FinalizationOnDone ==
  (last.shape = "tokensDone" /\ last.cause = "end" /\ ~last.endPending) =>
    /\ last.appended = 1
    /\ last.content = last.display
    /\ last.idleAfter

\* C10 amended: such a turn, once its stream has ended, has appended one
\* agent message whose content is the displayed text when that is not empty
\* and the fixed fallback text of the call otherwise, and has left the chat
\* idle.
FinalizationAtStreamEnd ==
  (last.shape = "tokensDone" /\ last.cause = "end" /\ ~last.endPending) =>
    /\ last.appended = 1
    /\ last.content = IF last.display # "" THEN last.display
                      ELSE IF last.kind = "send" THEN NoResponseText
                      ELSE IF last.decision = "reject" THEN RejectedText
                      ELSE DoneText
    /\ last.idleAfter

FinalizationAtStreamEndWitness ==
  /\ last.kind = "send" /\ last.shape = "tokensDone" /\ last.cause = "end"
  /\ ~last.endPending
  /\ last.display = "" /\ last.content = NoResponseText

\* C11: tool pairing.  While a turn's stream is open the live list holds one
\* item per tool_start received (a tool_end adds none); the item of an id
\* that was started once is the only one of that id, is done with the
\* duration of the last tool_end of that id received after the start, and is
\* running without a duration when no such tool_end came: a tool_end whose
\* id matches no item changes nothing.
ToolPairing ==
  ops[1].pc = "read" =>
    LET starts(i) == {a \in 1..Len(handled) :
                        handled[a].type = "tool_start" /\ handled[a].id = i}
        ends(i, a) == {b \in (a + 1)..Len(handled) :
                         handled[b].type = "tool_end" /\ handled[b].id = i}
        items(i) == {k \in 1..Len(tracesRef) : tracesRef[k].id = i}
        Latest(S) == CHOOSE x \in S : \A y \in S : y <= x
    IN /\ Len(tracesRef) =
            Cardinality({a \in 1..Len(handled) : handled[a].type = "tool_start"})
       /\ activeTraces = tracesRef
       /\ \A i \in {"t1", "t2"} :
            Cardinality(starts(i)) = 1 =>
              LET a == CHOOSE x \in starts(i) : TRUE
                  k == CHOOSE x \in items(i) : TRUE
              IN /\ Cardinality(items(i)) = 1
                 /\ IF ends(i, a) = {}
                    THEN tracesRef[k].status = "running" /\ tracesRef[k].duration = NoDuration
                    ELSE /\ tracesRef[k].status = "done"
                         /\ tracesRef[k].duration = handled[Latest(ends(i, a))].duration

ToolPairingWitness ==
  /\ ops[1].pc = "read"
  /\ Len(handled) = 3
  /\ handled[1].type = "tool_end" /\ handled[1].id = "t2"
  /\ handled[2].type = "tool_start" /\ handled[2].id = "t1"
  /\ handled[3].type = "tool_end" /\ handled[3].id = "t1" /\ handled[3].duration = 120
  /\ Len(tracesRef) = 1
  /\ tracesRef[1].status = "done" /\ tracesRef[1].duration = 120

\* C12: usage additivity.  In every state of a chat each session counter is
\* the sum of the corresponding fields of the usage events received so far,
\* in whatever send and approval turns they came: nothing else changes or
\* resets the counters.
UsageAdditivity == sessionTokens = usageSeen

UsageAdditivityWitness ==
  /\ sessionTokens = [input |-> 20, output |-> 10, total |-> 30, reasoning |-> 4]
  /\ last.kind = "send" /\ last.calls = 1
  /\ \E o \in OpIds : ops[o].kind = "send" /\ ops[o].calls = 1

\* C13 as stated: thinking-span stripping.  However the raw text is cut into
\* token events, no text of a thinking span is in the displayed text after
\* any token, and after the last token the displayed text is the raw text
\* without its paired spans and without an unclosed span's rest.
ThinkingSpanStripping ==
  ops[1].pc = "read" =>
    /\ IndexOf(ops[1].fullContent, "B") = 0
    /\ IndexOf(streamingContent, "B") = 0
    /\ pos = Len(stream) => ops[1].fullContent = Shown(stream)

\* C13 amended: the same, with the displayed text trimmed of leading and
\* trailing whitespace; after every token the displayed text is the stripped
\* and trimmed text of the tokens received so far.
ThinkingSpanStrippingTrimmed ==
  ops[1].pc = "read" =>
    /\ IndexOf(ops[1].fullContent, "B") = 0
    /\ IndexOf(streamingContent, "B") = 0
    /\ streamingContent = ops[1].fullContent
    /\ ops[1].rawContent = SubSeq(stream, 1, pos)
    /\ ops[1].fullContent = Trim(StripOpenThink(StripClosedThink(SubSeq(stream, 1, pos))))
    /\ pos = Len(stream) => ops[1].fullContent = Trim(Shown(stream))

ThinkingSpanStrippingTrimmedWitness ==
  /\ ops[1].pc = "read"
  /\ stream = "A <think>BB" /\ pos = Len(stream)
  /\ ops[1].calls = 3
  /\ ops[1].fullContent = "A"

\* C14 as stated: token accumulation.  When the text of the tokens holds no
\* thinking delimiter, the displayed text after the last token is the
\* concatenation of the token contents in arrival order.
TokenAccumulation ==
  (ops[1].pc = "read" /\ IndexOf(stream, "<think>") = 0 /\ pos = Len(stream)) =>
    ops[1].fullContent = stream

\* C14 amended: after every token of such a text the displayed text is the
\* concatenation of the contents received so far, trimmed of leading and
\* trailing whitespace.
TokenAccumulationTrimmed ==
  (ops[1].pc = "read" /\ IndexOf(stream, "<think>") = 0) =>
    /\ ops[1].fullContent = Trim(SubSeq(stream, 1, pos))
    /\ pos = Len(stream) => ops[1].fullContent = Trim(stream)

TokenAccumulationTrimmedWitness ==
  /\ ops[1].pc = "read"
  /\ stream = "Hello world" /\ pos = Len(stream)
  /\ ops[1].calls = 3
  /\ ops[1].fullContent = "Hello world"

\* C15: missing session.  While the chat has no session no client operation
\* is started, and a step that changes the message list appends the one
\* local message that tells the user to rebuild and leaves isTyping, the
\* streamed text, the trace list and the pending interrupt as they were.
MissingSession ==
  [][sessionId = NoSession =>
       /\ ops' = ops /\ nOps' = nOps /\ InFlight = {}
       /\ messages' # messages =>
            /\ messages' = Append(messages, AgentMessage(NoSessionText, <<>>))
            /\ UNCHANGED <<isTyping, streamingContent, activeTraces, tracesRef,
                           pendingInterrupt, interruptRef>>]_vars

MissingSessionWitness ==
  /\ sessionId = NoSession
  /\ input = "hi"
  /\ messages = <<AgentMessage(GreetingText, <<>>), AgentMessage(NoSessionText, <<>>)>>
  /\ ~isTyping /\ nOps = 0

\* C16: pending interrupt slot.  The slot changes to an interrupt only when
\* a handler gets an interrupt event; the start of an approval clears it
\* before the approval's handler has run; and while an approval is in flight
\* only the stream of an approval, the resumed stream, sets it again.
PendingInterruptSlot ==
  [][/\ (pendingInterrupt' # pendingInterrupt /\ pendingInterrupt' # NoInterrupt) =>
          \E o \in OpIds :
            /\ ops[o].pc = "read"
            /\ ops'[o].calls = ops[o].calls + 1
            /\ ops'[o].gotInterrupt
            /\ pendingInterrupt'.type = "interrupt"
            /\ (\E a \in OpIds : ops[a].kind = "approval") => ops[o].kind = "approval"
     /\ \A o \in OpIds :
          (ops[o].kind = "none" /\ ops'[o].kind = "approval") =>
            /\ pendingInterrupt # NoInterrupt
            /\ pendingInterrupt' = NoInterrupt
            /\ ops'[o].calls = 0
    ]_vars

\* C17 as stated: no stuck typing state.  While isTyping is true a
\* sendMessage or sendApproval operation is in flight.
NoStuckTyping == isTyping => InFlight # {}

\* C17 amended: while isTyping is true an operation is in flight or an
\* interrupt is pending, waiting for the user's decision.
NoStuckTypingUnlessPending ==
  isTyping => (InFlight # {} \/ pendingInterrupt # NoInterrupt)

NoStuckTypingUnlessPendingWitness ==
  /\ isTyping
  /\ InFlight = {}
  /\ pendingInterrupt # NoInterrupt
  /\ last.kind = "send" /\ last.cause = "end"

\* C18: single session.  At most one session is created and not deleted;
\* the create calls are one per build action, the last one issued when the
\* build's animation completes; the stored session id is non-null in the chat
\* phase only; and a reset or mode switch issues one delete for the id it
\* finds, none when it finds none, and clears the id.
SingleSessionState ==
  /\ Cardinality(LiveSessions) <= 1
  /\ app.createCalls = app.builds - (IF app.timer THEN 1 ELSE 0)
  /\ sessionId # NoSession => app.phase = "chat"

SingleSessionStep ==
  (app.phase = "chat" /\ app'.phase = "soul") \/ app'.inputMode # app.inputMode =>
    /\ sessionId' = NoSession
    /\ app'.deleteCalls = IF sessionId # NoSession
                          THEN Append(app.deleteCalls, sessionId)
                          ELSE app.deleteCalls

SingleSession == [](SingleSessionState) /\ [][SingleSessionStep]_vars

\* a reset found and deleted the first session and a second build has
\* created the next one
SingleSessionWitness ==
  /\ app.deleteCalls = <<SessionName(1)>>
  /\ sessionId = SessionName(2)
  /\ app.phase = "chat"

\* C19: line-ending normalization.  Once the body of a stream with CRLF line
\* endings has been read, however it was cut into chunks, the events handed
\* to the handler are those the decoder yields for the same frames written
\* with LF line endings.
LineEndingNormalization ==
  (ssePc = "done" /\ eol = "\r\n") =>
    handled = DecodeWhole(SerializeAll(frames, "\n"))

\* the text-valued fields of the events of a type, with the payload property
\* each is read from
TextFields(type) ==
  CASE type = "token" -> {<<"content", "content">>}
    [] type = "tool_start" -> {<<"id", "id">>, <<"name", "name">>,
                               <<"action", "action">>, <<"input", "input">>}
    [] type = "tool_end" -> {<<"id", "id">>, <<"name", "name">>, <<"output", "output">>}
    [] type = "error" -> {<<"message", "message">>}
    [] OTHER -> {}

\* the payload has the text property f
HasStr(parsed, f) == \E i \in 1..Len(parsed.str) : parsed.str[i][1] = f

\* C20: event mapper defaults.  For each known type label and each payload,
\* the mapper yields an event of that type; none of its text fields is
\* undefined, a text field whose property is absent is the empty string, and
\* an absent skill id or icon of a tool_start is the generic fallback.  (The
\* numeric fields are read with || 0 through GetNumOr0.)
MapperDefaults ==
  \A i \in 1..Len(handled) :
    LET event == handled[i]
        parsed == JsonTable[frames[i].payload]
    IN /\ event.type = frames[i].label
       /\ \A tf \in TextFields(event.type) :
            /\ event[tf[1]] # Undefined
            /\ ~HasStr(parsed, tf[2]) => event[tf[1]] = ""
       /\ event.type = "tool_start" =>
            /\ ~HasStr(parsed, "skillId") => event.skillId = "api"
            /\ ~HasStr(parsed, "icon") => event.icon = "wrench"
       /\ (/\ event.type = "tool_end"
           /\ \A j \in 1..Len(parsed.num) : parsed.num[j][1] # "duration") =>
            event.duration = 0
       /\ (event.type = "usage" /\ parsed.num = <<>>) =>
            /\ event.inputTokens = 0 /\ event.outputTokens = 0
            /\ event.totalTokens = 0 /\ event.reasoningTokens = 0

\* C21: create session fails on every non-success HTTP status.  The last
\* create call whose response had a status outside 200..299 threw an error
\* whose message carries the text of the response body, returned no session
\* id, and no session id is stored.
CreateFailsOnBadStatus ==
  (app.lastCreate.status # 0 /\ app.lastCreate.status \notin 200..299) =>
    /\ app.lastCreate.threw
    /\ Len(app.lastCreate.message) >= Len(app.lastCreate.body)
    /\ SubSeq(app.lastCreate.message,
              Len(app.lastCreate.message) - Len(app.lastCreate.body) + 1,
              Len(app.lastCreate.message)) = app.lastCreate.body
    /\ app.lastCreate.id = NoSession
    /\ sessionId = NoSession
    /\ app.lastCreate.id \notin Range(app.created)

\* a create call got the status 404 with a body, after a build that worked
\* and a reset
CreateFailsOnBadStatusWitness ==
  /\ app.lastCreate.status = 404
  /\ app.lastCreate.body = "quota exceeded"
  /\ app.phase = "chat"
  /\ Len(app.created) = 1

\* C22: mid-stream error event.  An error event does not end the turn, and
\* the agent message that finalizes the turn contains the text of every
\* error event the turn received, whatever events came after it.
MidStreamErrorKept ==
  /\ last.kind = "none" => ops[1].pc = "read"
  /\ last.kind = "send" =>
       /\ last.appended = 1
       /\ \A i \in 1..Len(handled) :
            handled[i].type = "error" =>
              IndexOf(last.content, ErrorSuffix(handled[i].message)) # 0

\* C23: transport failure in an approval turn.  When the send-approval
\* operation of a call has thrown (a network failure or a cancellation) and
\* no interrupt is pending, the call has appended one agent message: the
\* displayed buffer if it was non-empty, the timeout text if the buffer was
\* empty and the signal was aborted, and never the success text.
ApprovalTransportFailure ==
  (last.kind = "approval" /\ last.outcome = "threw" /\ ~last.endPending) =>
    /\ last.appended = 1
    /\ last.display # "" => last.content = last.display
    /\ (last.display = "" /\ last.aborted) => last.content = TimeoutText
    /\ last.content # DoneText

\* C24: state frozen at an interrupt is carried over.  When the resumed
\* turn completes (the approval ends without a further interrupt), the step
\* appends one agent message, and the displayed text and the trace items
\* that were there when the interrupt arrived are both in that message; no
\* message is appended while the interrupt is unresolved.
FrozenStateCarriedOver ==
  [][/\ (gate.on /\ gate'.on) => messages' = messages
     /\ (gate.on /\ ~gate'.on) =>
          /\ Len(messages') = Len(messages) + 1
          /\ LET m == messages'[Len(messages')] IN
             /\ m.role = "agent"
             /\ gate.text # "" => IndexOf(m.content, gate.text) # 0
             /\ \A i \in 1..Len(gate.traces) :
                  \E j \in 1..Len(m.traces) : m.traces[j].id = gate.traces[i].id]_vars

\* C25: idle invariant.  Whenever isTyping is false the live trace list
\* (state and ref) and the streaming buffer are empty and no interrupt is
\* pending; the start of a send clears the trace list and the buffer and
\* sets isTyping; a finalization (a call ends and appends its agent message)
\* clears them and resets isTyping.
IdleState ==
  ~isTyping =>
    /\ activeTraces = <<>>
    /\ tracesRef = <<>>
    /\ streamingContent = ""
    /\ pendingInterrupt = NoInterrupt

IdleStep ==
  /\ (\E o \in OpIds : ops[o].kind = "none" /\ ops'[o].kind = "send") =>
       /\ activeTraces' = <<>> /\ tracesRef' = <<>>
       /\ streamingContent' = "" /\ isTyping'
  /\ (last' # last /\ last'.appended = 1) =>
       /\ activeTraces' = <<>> /\ tracesRef' = <<>>
       /\ streamingContent' = "" /\ ~isTyping'

IdleInvariant == [](IdleState) /\ [][IdleStep]_vars

\* C26: the message list is append-only.  Every step leaves the list as it
\* is or appends one message at its end; the messages already in it keep
\* their role, content and traces, and their order.
MessagesAppendOnly ==
  [][\/ messages' = messages
     \/ /\ Len(messages') = Len(messages) + 1
        /\ SubSeq(messages', 1, Len(messages)) = messages]_vars

\* an agent message with traces has been followed by a later turn's messages
MessagesAppendOnlyWitness ==
  \E i \in 1..Len(messages) :
    /\ messages[i].hasTraces
    /\ Len(messages) >= i + 2
    /\ messages[Len(messages)].role = "agent"

\* C27: the create request carries the configuration current at the moment
\* it is issued: its sandbox map is the sandboxMap state of that moment, its
\* skill ids the added skills and its model id the selected model.
CreateRequestCurrent ==
  app.createCalls > 0 =>
    /\ app.request.sandboxMap = app.request.sandboxMapState
    /\ app.request.skillIds = app.request.skillsState
    /\ app.request.modelId = app.request.modelState

\* C28: every trace item attached to an agent message has the status done,
\* also an item whose tool_end had not arrived when the turn ended, and a
\* message finalized with an empty trace list carries no trace record.
FinalTracesDone ==
  \A i \in 1..Len(messages) :
    /\ \A j \in 1..Len(messages[i].traces) : messages[i].traces[j].status = "done"
    /\ messages[i].hasTraces <=> Len(messages[i].traces) > 0

\* a send turn got a tool_start and an interrupt and nothing else, and the
\* approval turn, whose stream brought no event, finalized the message with
\* the item that never got its tool_end
FinalTracesDoneWitness ==
  /\ last.kind = "approval" /\ last.appended = 1 /\ last.calls = 0
  /\ nEvents = 2
  /\ InFlight = {}
  /\ messages[Len(messages)].hasTraces
  /\ messages[Len(messages)].traces[1].duration = NoDuration

\* C29: teardown versus in-flight stream.  A reset that issues the delete
\* call aborts the signal of every operation in flight, and once a delete
\* call has been issued no handler gets a further event; the 60 s timer is
\* armed only while its operation is in flight.
TeardownAbortsInFlight ==
  /\ [](\A o \in OpIds : ops[o].timer => o \in InFlight)
  /\ [][/\ Len(app'.deleteCalls) > Len(app.deleteCalls) =>
             \A o \in InFlight : ops'[o].aborted
        /\ app.deleteCalls # <<>> => nEvents' = nEvents]_vars

\* C30: an approval request is sent only while an interrupt is pending, and
\* the decision it sends is one of the allowed decisions of that interrupt.
DecisionAllowed ==
  [][\A o \in OpIds :
       (ops[o].kind = "none" /\ ops'[o].kind = "approval") =>
         /\ pendingInterrupt # NoInterrupt
         /\ \E i \in 1..Len(pendingInterrupt.allowedDecisions) :
              pendingInterrupt.allowedDecisions[i] = ops'[o].decision]_vars

====
